---- MODULE Spec2Model ----
(***************************************************************************)
(* Model of src/lib.rs: a per-thread Merkle tree over Pasta field elements *)
(* (LOCAL_TREE), built in one pass (create_merkle_tree), extended leaf by  *)
(* leaf (add_leaf_to_tree), read by get_merkle_root / get_merkle_path_impl *)
(* and reset by clear_merkle_tree.                                         *)
(*                                                                         *)
(* Field elements are terms: Fp(v) is the element Fp::from(v), and the     *)
(* Poseidon hash of a sequence of elements is the term <<"H", input>>, an  *)
(* injective, non-commutative function of its input.                       *)
(***************************************************************************)
EXTENDS Integers, Sequences, FiniteSets, TLC

VARIABLES tree, leaves, last

vars == <<tree, leaves, last>>

\* ------------------------------------------------------------------ bounds
\* leaf values are Fp(0) .. Fp(MaxLeafVal)
MaxLeafVal == 1
\* longest leaf sequence a single context holds under Spec
MaxLeaves == 4
\* longest leaf sequence a context holds under IsoSpec (two contexts)
IsoMaxLeaves == 5
\* longest leaf sequence under PathSpec
PathMaxLeaves == 6
\* largest buffer capacity passed to get_merkle_path under PathSpec
MaxCap == 3

\* ---------------------------------------------------------- field elements
Fp(v) == <<"fp", v>>

\* ark_ff::Zero for Fp: the additive identity, the same element as Fp::from(0)
Zero == Fp(0)

LeafVals == {Fp(v) : v \in 0..MaxLeafVal}

\* poseidon_hash: reset the thread's sponge, absorb the input, squeeze.
\* The reset makes the result a function of the input alone.
poseidon_hash(input) == <<"H", input>>

\* --------------------------------------------------------------- contexts
\* main spawns two threads; each has its own LOCAL_TREE slot.
Contexts == {1, 2}

\* A thread that reads a static through the thread_local LocalKey gets the
\* slot shared by every thread (what a plain static would do).
LOCAL_TREE_static(c) == 1

\* LOCAL_TREE.with(..) in thread c resolves to thread c's own slot.
LOCAL_TREE(c) == c

\* ------------------------------------------------------------------ nodes
\* A raw pointer to the node at position idx (0-based) of the level that is
\* at index level (0-based) of the level vector when the pointer is taken.
Ref(level, idx) == [level |-> level, idx |-> idx]

\* std::ptr::null_mut()
NULL == [level |-> -1, idx |-> -1]

MerkleNode(hash, left, right) == [hash |-> hash, left |-> left, right |-> right]

\* MerkleNode::new
MerkleNode_new(hash) == MerkleNode(hash, NULL, NULL)

\* what create_merkle_tree hands out when it builds nothing
NullNode == MerkleNode(Zero, NULL, NULL)

Last(s) == s[Len(s)]

Front(s) == SubSeq(s, 1, Len(s) - 1)

Hashes(level) == [j \in 1..Len(level) |-> level[j].hash]

\* slice::chunks(2): the number of chunks of a level
NumChunks(level) == (Len(level) + 1) \div 2

\* ------------------------------------------------------ build_merkle_tree
\* one round of the hash-only reduction: pair with H, carry a trailing one
RECURSIVE NextHashes(_, _, _)
NextHashes(current_level, j, next_level) ==
    IF j > (Len(current_level) + 1) \div 2 THEN next_level
    ELSE NextHashes(current_level, j + 1,
            Append(next_level,
                   IF 2 * j <= Len(current_level)
                   THEN poseidon_hash(<<current_level[2 * j - 1],
                                        current_level[2 * j]>>)
                   ELSE current_level[2 * j - 1]))

RECURSIVE build_merkle_tree(_)
build_merkle_tree(data) ==
    IF Len(data) > 1 THEN build_merkle_tree(NextHashes(data, 1, <<>>)) ELSE data[1]

\* ------------------------------------------------- build_full_merkle_tree
\* the pairing rule with a trailing node hashed with itself rather than carried
BuildNode_hash_carry(current_level, lvl, j) ==
    IF 2 * j <= Len(current_level)
    THEN MerkleNode(poseidon_hash(<<current_level[2 * j - 1].hash,
                                    current_level[2 * j].hash>>),
                    Ref(lvl, 2 * j - 2), Ref(lvl, 2 * j - 1))
    ELSE MerkleNode(poseidon_hash(<<current_level[2 * j - 1].hash,
                                    current_level[2 * j - 1].hash>>),
                    Ref(lvl, 2 * j - 2), NULL)

\* the node built from chunk j (1-based) of current_level, which is at index
\* lvl (0-based) of the level vector
BuildNode(current_level, lvl, j) ==
    IF 2 * j <= Len(current_level)
    THEN MerkleNode(poseidon_hash(<<current_level[2 * j - 1].hash,
                                    current_level[2 * j].hash>>),
                    Ref(lvl, 2 * j - 2), Ref(lvl, 2 * j - 1))
    ELSE MerkleNode(current_level[2 * j - 1].hash, Ref(lvl, 2 * j - 2), NULL)

\* for chunk in current_level.chunks(2) { ... new_level.push(node) }
RECURSIVE BuildParentLevel(_, _, _, _)
BuildParentLevel(current_level, lvl, j, new_level) ==
    IF j > NumChunks(current_level) THEN new_level
    ELSE BuildParentLevel(current_level, lvl, j + 1,
                          Append(new_level, BuildNode(current_level, lvl, j)))

\* while levels.last().unwrap().len() > 1 { ... levels.push(new_level) }
RECURSIVE BuildLoop(_)
BuildLoop(levels) ==
    IF Len(Last(levels)) > 1
    THEN BuildLoop(Append(levels,
                  BuildParentLevel(Last(levels), Len(levels) - 1, 1, <<>>)))
    ELSE levels

\* for fp in data { nodes.push(MerkleNode { hash: fp, null, null }) }
RECURSIVE LeafNodes(_, _, _)
LeafNodes(data, j, nodes) ==
    IF j > Len(data) THEN nodes
    ELSE LeafNodes(data, j + 1, Append(nodes, MerkleNode_new(data[j])))

\* Vec::clear that leaves the elements in place
Vec_clear_keep(v) == v

\* Vec::clear
Vec_clear(v) == <<>>

\* The stored levels are cleared, the leaf level pushed, the loop run, and
\* then the last level is popped off the stored vector and its first node
\* returned by last_level.remove(0), which panics when that level is empty
\* (empty data); the pop has happened by then.
build_full_merkle_tree(levels, data) ==
    LET built == BuildLoop(Append(Vec_clear(levels), LeafNodes(data, 1, <<>>)))
    IN  [levels |-> Front(built),
         panic |-> Last(built) = <<>>,
         root |-> IF Last(built) = <<>> THEN NullNode ELSE Last(built)[1]]

\* ------------------------------------------------------------ add_one_leaf
\* the node built from chunk j (1-based) of current_level, which is at index
\* lvl (0-based): left: &chunk[0], right: &chunk[1] or again &chunk[0]
AddNode(current_level, lvl, j) ==
    IF 2 * j <= Len(current_level)
    THEN MerkleNode(poseidon_hash(<<current_level[2 * j - 1].hash,
                                    current_level[2 * j].hash>>),
                    Ref(lvl, 2 * j - 2), Ref(lvl, 2 * j - 1))
    ELSE MerkleNode(current_level[2 * j - 1].hash,
                    Ref(lvl, 2 * j - 2), Ref(lvl, 2 * j - 2))

\* for chunk in current_level.chunks(2) { ... parent_level.push(..) }
RECURSIVE AddParentLevel(_, _, _, _)
AddParentLevel(current_level, lvl, j, parent_level) ==
    IF j > NumChunks(current_level) THEN parent_level
    ELSE AddParentLevel(current_level, lvl, j + 1,
                        Append(parent_level, AddNode(current_level, lvl, j)))

\* while level_index > 0 { levels[level_index - 1] = parent_level; ... }
RECURSIVE AddLoop(_, _)
AddLoop(levels, level_index) ==
    IF level_index > 0
    THEN AddLoop([levels EXCEPT ![level_index] =
                      AddParentLevel(levels[level_index + 1], level_index,
                                     1, <<>>)],
                 level_index - 1)
    ELSE levels

\* an append that pushes the leaf onto level 0 and rebuilds every level
\* above it, the root level kept
add_one_leaf_rebuild(levels, new_leaf) ==
    IF levels = <<>>
    THEN <<(<<MerkleNode_new(new_leaf)>>)>>
    ELSE BuildLoop(<<Append(levels[1], MerkleNode_new(new_leaf))>>)

add_one_leaf(levels, new_leaf) ==
    IF levels = <<>>
    THEN <<(<<MerkleNode_new(new_leaf)>>)>>
    ELSE LET pushed == Append(Front(levels),
                              Append(Last(levels), MerkleNode_new(new_leaf)))
         IN  AddLoop(pushed, Len(pushed) - 1)

\* ---------------------------------------------------------------- get_root
get_root(levels) ==
    IF levels = <<>> THEN Zero ELSE Last(levels)[1].hash

\* ------------------------------------------------------------ clear_levels
\* a clear that drops only the topmost level
clear_levels_pop(levels) == IF levels = <<>> THEN levels ELSE Front(levels)

clear_levels(levels) == Vec_clear(levels)

\* ---------------------------------------------------- get_merkle_path_impl
Min(a, b) == IF a < b THEN a ELSE b

\* the elements of one level pushed sibling first whatever the side
PathStep_sibling_first(nodes, current_index) ==
    LET flipped == IF current_index % 2 = 0 THEN current_index + 1
                   ELSE current_index - 1
        sibling_index == Min(flipped, Len(nodes) - 1)
    IN  <<nodes[sibling_index + 1].hash>>
        \o (IF current_index # sibling_index
            THEN <<nodes[current_index + 1].hash>> ELSE <<>>)

\* the elements pushed for one level, nodes = &tree[level]
PathStep(nodes, current_index) ==
    LET flipped == IF current_index % 2 = 0 THEN current_index + 1
                   ELSE current_index - 1
        sibling_index == Min(flipped, Len(nodes) - 1)
    IN  (IF current_index < sibling_index
         THEN <<nodes[current_index + 1].hash>> ELSE <<>>)
        \o <<nodes[sibling_index + 1].hash>>
        \o (IF current_index > sibling_index
            THEN <<nodes[current_index + 1].hash>> ELSE <<>>)

\* the loop with the safety check replaced by a clamp of the index to the
\* last node of the level
RECURSIVE PathLoop_clamp(_, _, _, _)
PathLoop_clamp(levels, level, current_index, path) ==
    IF level >= Len(levels) - 1 THEN path
    ELSE PathLoop_clamp(levels, level + 1,
                        Min(current_index, Len(levels[level + 1]) - 1) \div 2,
                        path \o PathStep(levels[level + 1],
                                         Min(current_index,
                                             Len(levels[level + 1]) - 1)))

\* for level in 0..tree.len() - 1 { ... }
RECURSIVE PathLoop(_, _, _, _)
PathLoop(levels, level, current_index, path) ==
    IF level >= Len(levels) - 1 THEN path
    ELSE IF Len(levels[level + 1]) <= current_index THEN path
    ELSE PathLoop(levels, level + 1, current_index \div 2,
                  path \o PathStep(levels[level + 1], current_index))

get_merkle_path_impl(levels, leaf_index) ==
    IF levels = <<>> THEN <<>> ELSE PathLoop(levels, 0, leaf_index, <<>>)

\* ------------------------------------------------------------------ state
\* tree[s]   : the Vec<Vec<MerkleNode>> in slot s of LOCAL_TREE
\* leaves[c] : the leaf values context c has put into its tree since its last
\*             build or clear (history, used to state the claims)
\* last      : the last call: its name, calling context, inputs and outputs,
\*             and the number of levels the caller's tree had before it
\*             handle : what create_merkle_tree returned ("null" or "box")
\*             panic  : the call panicked
\*             args   : which pointer/count arguments were null or zero
\*             cap, buf, len, status : get_merkle_path's capacity passed in,
\*             and the buffer, the in/out length and the status code after
Call(op, ctx, data, leaf, index, pre, root, fp, path) ==
    [op |-> op, ctx |-> ctx, data |-> data, leaf |-> leaf, index |-> index,
     pre |-> pre, root |-> root, fp |-> fp, path |-> path,
     handle |-> "none", panic |-> FALSE,
     args |-> "none", cap |-> 0, buf |-> <<>>, len |-> 0, status |-> 0]

Init ==
    /\ tree = [c \in Contexts |-> <<>>]
    /\ leaves = [c \in Contexts |-> <<>>]
    /\ last = Call("init", 0, <<>>, Zero, 0, 0, NullNode, Zero, <<>>)

\* leaf batches of length 1..n
Batches(n) == UNION {[1..k -> LeafVals] : k \in 1..n}

\* create_merkle_tree(data, count) with count > 0 and data non-null
create_merkle_tree(c, data) ==
    \E b \in {build_full_merkle_tree(tree[LOCAL_TREE(c)], data)} :
        /\ tree' = [tree EXCEPT ![LOCAL_TREE(c)] = b.levels]
        /\ leaves' = [leaves EXCEPT ![c] = data]
        /\ last' = [Call("create", c, data, Zero, 0, Len(tree[LOCAL_TREE(c)]),
                         b.root, Zero, <<>>) EXCEPT !.handle = "box"]

\* create_merkle_tree without its first check: the empty batch goes on into
\* build_full_merkle_tree
create_merkle_tree_unchecked(c) ==
    \E b \in {build_full_merkle_tree(tree[LOCAL_TREE(c)], <<>>)} :
        /\ tree' = [tree EXCEPT ![LOCAL_TREE(c)] = b.levels]
        /\ leaves' = [leaves EXCEPT ![c] = <<>>]
        /\ last' = [Call("create", c, <<>>, Zero, 0, Len(tree[LOCAL_TREE(c)]),
                         b.root, Zero, <<>>) EXCEPT !.panic = b.panic]

\* create_merkle_tree with a null data pointer or with count = 0: returns
\* null before anything is touched
create_merkle_tree_invalid(c) ==
    \E why \in {"null_data", "zero_count"} :
        /\ last' = [Call("create", c, <<>>, Zero, 0, Len(tree[LOCAL_TREE(c)]),
                         NullNode, Zero, <<>>)
                        EXCEPT !.handle = "null", !.args = why]
        /\ UNCHANGED <<tree, leaves>>

\* add_leaf_to_tree(new_leaf)
add_leaf_to_tree(c, new_leaf) ==
    LET slot == LOCAL_TREE(c)
    IN  /\ tree' = [tree EXCEPT ![slot] = add_one_leaf(tree[slot], new_leaf)]
        /\ leaves' = [leaves EXCEPT ![c] = Append(leaves[c], new_leaf)]
        /\ last' = Call("append", c, <<>>, new_leaf, 0, Len(tree[slot]),
                        NullNode, Zero, <<>>)

\* get_merkle_root()
get_merkle_root(c) ==
    /\ last' = Call("root", c, <<>>, Zero, 0, Len(tree[LOCAL_TREE(c)]),
                    NullNode, get_root(tree[LOCAL_TREE(c)]), <<>>)
    /\ UNCHANGED <<tree, leaves>>

\* get_merkle_path_impl(leaf_index), reading the calling thread's tree
get_path(c, leaf_index) ==
    /\ last' = Call("path", c, <<>>, Zero, leaf_index, Len(tree[LOCAL_TREE(c)]),
                    NullNode, Zero,
                    get_merkle_path_impl(tree[LOCAL_TREE(c)], leaf_index))
    /\ UNCHANGED <<tree, leaves>>

\* clear_merkle_tree()
clear_merkle_tree(c) ==
    LET slot == LOCAL_TREE(c)
    IN  /\ tree' = [tree EXCEPT ![slot] = clear_levels(tree[slot])]
        /\ leaves' = [leaves EXCEPT ![c] = <<>>]
        /\ last' = Call("clear", c, <<>>, Zero, 0, Len(tree[slot]),
                        NullNode, Zero, <<>>)

\* One thread using the library.
Next ==
    \E c \in {1} :
        \/ \E data \in Batches(MaxLeaves) : create_merkle_tree(c, data)
        \/ create_merkle_tree_invalid(c)
        \/ \E x \in LeafVals :
              Len(leaves[c]) < MaxLeaves /\ add_leaf_to_tree(c, x)
        \/ get_merkle_root(c)
        \/ \E i \in 0..MaxLeaves : get_path(c, i)
        \/ clear_merkle_tree(c)

Spec == Init /\ [][Next]_vars

\* main: the leaf vector each thread builds from (data1, data2) and the leaf
\* it appends (Fp::from(9), Fp::from(10))
MainData(c) ==
    IF c = 1 THEN <<Fp(1), Fp(2), Fp(3), Fp(4)>> ELSE <<Fp(5), Fp(6), Fp(7), Fp(8)>>

MainLeaf(c) == IF c = 1 THEN Fp(9) ELSE Fp(10)

\* Both threads of main, interleaved call by call, each making any of the
\* calls in any order on a prefix of its own data.
IsoNext ==
    \E c \in Contexts :
        \/ \E k \in 1..Min(IsoMaxLeaves, Len(MainData(c))) :
              create_merkle_tree(c, SubSeq(MainData(c), 1, k))
        \/ create_merkle_tree_invalid(c)
        \/ Len(leaves[c]) < IsoMaxLeaves /\ add_leaf_to_tree(c, MainLeaf(c))
        \/ get_merkle_root(c)
        \/ \E i \in 0..IsoMaxLeaves : get_path(c, i)
        \/ clear_merkle_tree(c)

IsoSpec == Init /\ [][IsoNext]_vars

\* build_full_merkle_tree(data) called directly, as the Tree Builder on any
\* batch, the empty one included (create_merkle_tree never passes that one)
build_full_merkle_tree_call(c, data) ==
    \E b \in {build_full_merkle_tree(tree[LOCAL_TREE(c)], data)} :
        /\ tree' = [tree EXCEPT ![LOCAL_TREE(c)] = b.levels]
        /\ leaves' = [leaves EXCEPT ![c] = data]
        /\ last' = [Call("build", c, data, Zero, 0, Len(tree[LOCAL_TREE(c)]),
                         b.root, Zero, <<>>) EXCEPT !.panic = b.panic]

\* The Tree Builder and the Incremental Updater used as units by one thread;
\* a panic unwinds the thread, which makes no further call.
UnitNext ==
    \E c \in {1} :
        \/ \E data \in Batches(MaxLeaves) \cup {<<>>} :
              ~last.panic /\ build_full_merkle_tree_call(c, data)
        \/ \E x \in LeafVals :
              /\ ~last.panic
              /\ Len(leaves[c]) < MaxLeaves
              /\ add_leaf_to_tree(c, x)
        \/ ~last.panic /\ clear_merkle_tree(c)

UnitSpec == Init /\ [][UnitNext]_vars

\* ---------------------------------------------------------- get_merkle_path
\* what the caller's memory holds before the call; the callee never reads it
Uninit == Fp(-1)

\* the caller's memory from out_path on, n cells
RECURSIVE Memory(_)
Memory(n) == IF n = 0 THEN <<>> ELSE Append(Memory(n - 1), Uninit)

\* the copy loop without its break: every element of path is stored
RECURSIVE CopyOut_unbounded(_, _, _, _)
CopyOut_unbounded(mem, path, i, cap) ==
    IF i >= Len(path) THEN mem
    ELSE CopyOut_unbounded([mem EXCEPT ![i + 1] = path[i + 1]], path, i + 1, cap)

\* for (i, node) in path.iter().enumerate() {
\*     if i >= *out_path_len { break; }  out_path_slice[i] = *node; }
RECURSIVE CopyOut(_, _, _, _)
CopyOut(mem, path, i, cap) ==
    IF i >= Len(path) THEN mem
    ELSE IF i >= cap THEN mem
    ELSE CopyOut([mem EXCEPT ![i + 1] = path[i + 1]], path, i + 1, cap)

\* get_merkle_path(leaf_index, out_path, out_path_len) with *out_path_len =
\* cap on entry. args tells which of the two pointers is null ("none": both
\* are valid); with a null pointer nothing is written. last.buf is the
\* caller's memory after the call, cap + |path| cells of it, last.len the
\* value of *out_path_len after the call, last.status the return value.
get_merkle_path(c, leaf_index, cap, args) ==
    \E path \in {get_merkle_path_impl(tree[LOCAL_TREE(c)], leaf_index)} :
        /\ last' = [Call("get_merkle_path", c, <<>>, Zero, leaf_index,
                         Len(tree[LOCAL_TREE(c)]), NullNode, Zero, path)
                        EXCEPT !.args = args,
                               !.cap = cap,
                               !.buf = IF args = "none"
                                       THEN CopyOut(Memory(cap + Len(path)),
                                                    path, 0, cap)
                                       ELSE Memory(cap + Len(path)),
                               !.len = IF args = "none" THEN Len(path) ELSE cap,
                               !.status = 0]
        /\ UNCHANGED <<tree, leaves>>

\* the first k leaves of a fixed leaf vector Fp(1), Fp(2), ...
RECURSIVE PathData(_)
PathData(k) == IF k = 0 THEN <<>> ELSE Append(PathData(k - 1), Fp(k))

\* One thread building from a fixed leaf vector, appending, clearing and
\* reading paths, both through get_merkle_path_impl and through the C entry
\* point with every buffer capacity up to MaxCap.
PathNext ==
    \E c \in {1} :
        \/ \E k \in 1..PathMaxLeaves : create_merkle_tree(c, PathData(k))
        \/ /\ Len(leaves[c]) < PathMaxLeaves
           /\ add_leaf_to_tree(c, Fp(Len(leaves[c]) + 1))
        \/ \E i \in 0..PathMaxLeaves : get_path(c, i)
        \/ \E i \in 0..PathMaxLeaves : \E cap \in 0..MaxCap :
              get_merkle_path(c, i, cap, "none")
        \/ \E i \in 0..PathMaxLeaves : \E args \in {"null_out", "null_len"} :
              get_merkle_path(c, i, 0, args)
        \/ clear_merkle_tree(c)

PathSpec == Init /\ [][PathNext]_vars

\* ================================================================ claims
\* leaf_count(): the length of level 0, 0 for a tree without levels
LeafCount(levels) == IF levels = <<>> THEN 0 ELSE Len(levels[1])

CeilDiv(a, b) == (a + b - 1) \div b

RECURSIVE Pow2(_)
Pow2(h) == IF h = 0 THEN 1 ELSE 2 * Pow2(h - 1)

\* the smallest h with 2^h >= n
RECURSIVE HeightFrom(_, _)
HeightFrom(n, h) == IF Pow2(h) >= n THEN h ELSE HeightFrom(n, h + 1)

Height(n) == HeightFrom(n, 0)

\* path replayed two elements at a time from the leaf: the leaf is in the
\* first pair, every pair hashes to an element of the next pair, and the last
\* pair hashes to root; an empty path replays to the leaf itself
Replays(leaf, path, root) ==
    IF path = <<>> THEN leaf = root
    ELSE /\ Len(path) % 2 = 0
         /\ leaf \in {path[1], path[2]}
         /\ \A k \in 1..(Len(path) \div 2) :
               LET h == poseidon_hash(<<path[2 * k - 1], path[2 * k]>>)
               IN  IF 2 * k = Len(path) THEN h = root
                   ELSE h \in {path[2 * k + 1], path[2 * k + 2]}

\* in a tree over n leaves, the node on leaf i's way up has a distinct
\* sibling at every level below the root
EvenlyPaired(n, i) ==
    \A l \in 0..(Height(n) - 1) :
        LET il == i \div Pow2(l)
            nl == CeilDiv(n, Pow2(l))
        IN  (IF il % 2 = 0 THEN il + 1 ELSE il - 1) < nl

\* C1: after a build and/or a run of appends, get_root returns the Merkle
\* root (pair-hash / odd-carry reduction) of all the leaves put in so far.
C1_BuildAppendEquivalence ==
    last.op = "append" =>
        get_root(tree[last.ctx]) = build_merkle_tree(leaves[last.ctx])

\* C2: after create_merkle_tree on a non-empty batch L, get_root returns the
\* Merkle root of L (for a single leaf x, x itself).
C2_BuildRootIsMerkleRoot ==
    (last.op = "create" /\ last.data # <<>>) =>
        get_root(tree[last.ctx]) = build_merkle_tree(last.data)

\* C3: for every tree over a non-empty leaf sequence and every valid leaf
\* index i, replaying path(i) pairwise through H reproduces get_root.
C3_PathRootReplay ==
    \A c \in Contexts :
        \A i \in 0..(Len(leaves[c]) - 1) :
            Replays(leaves[c][i + 1],
                    get_merkle_path_impl(tree[c], i),
                    get_root(tree[c]))

\* C4: the stored level sequence is empty or its last level has exactly one
\* node.
C4_RootLevelInvariant ==
    \A c \in Contexts : tree[c] = <<>> \/ Len(Last(tree[c])) = 1

\* C5: every stored level i+1 has ceil(length of level i / 2) nodes, node j
\* of it being H of nodes 2j, 2j+1 of level i or the single trailing child.
C5_LevelShapeInvariant ==
    \A c \in Contexts :
        \A i \in 1..(Len(tree[c]) - 1) :
            LET lo == tree[c][i]
                hi == tree[c][i + 1]
            IN  /\ Len(hi) = CeilDiv(Len(lo), 2)
                /\ \A j \in 1..Len(hi) :
                      2 * j - 1 <= Len(lo) /\
                      hi[j].hash =
                          IF 2 * j <= Len(lo)
                          THEN poseidon_hash(<<lo[2 * j - 1].hash, lo[2 * j].hash>>)
                          ELSE lo[2 * j - 1].hash

\* C6: an append on a non-empty tree leaves level 0 equal to the previous
\* level 0 followed by the new leaf, and after a build of L level 0 is L.
C6_AppendExtendsLevel0 ==
    [][/\ \A c \in Contexts :
            (last'.op = "append" /\ last'.ctx = c /\ tree[c] # <<>>
             /\ tree'[c] # tree[c])
            => /\ tree'[c] # <<>>
               /\ Hashes(tree'[c][1]) = Append(Hashes(tree[c][1]), last'.leaf)
       /\ (last'.op = "create" /\ last'.data # <<>>)
            => /\ tree'[last'.ctx] # <<>>
               /\ Hashes(tree'[last'.ctx][1]) = last'.data]_vars

\* C7: a call made by one context leaves every other context's stored
\* levels as they were.
C7_Isolation ==
    [][\A a \in Contexts : last'.ctx # a => tree'[a] = tree[a]]_vars

\* both threads hold different non-empty trees and thread 2 has just appended
C7_Witness ==
    /\ last.op = "append" /\ last.ctx = 2 /\ last.pre > 0
    /\ Len(tree[1]) > 1 /\ Len(tree[2]) > 1
    /\ tree[1] # tree[2]

\* C8: right after clear_merkle_tree the caller's tree has no levels, its
\* leaf count is 0, get_root is zero and every path is empty.
C8_ClearResets ==
    last.op = "clear" =>
        LET t == tree[last.ctx]
        IN  /\ t = <<>>
            /\ LeafCount(t) = 0
            /\ get_root(t) = Zero
            /\ \A i \in 0..MaxLeaves : get_merkle_path_impl(t, i) = <<>>

\* a clear of a tree that had several levels
C8_Witness ==
    last.op = "clear" /\ last.pre > 1 /\ tree[last.ctx] = <<>>

\* C9: over n >= 1 leaves with height h, path(i) has at most 2h elements and
\* exactly 2h when the node has a distinct sibling at every level.
C9_PathLengthBound ==
    \A c \in Contexts :
        \A i \in 0..(Len(leaves[c]) - 1) :
            LET n == Len(leaves[c])
                p == get_merkle_path_impl(tree[c], i)
            IN  /\ Len(p) <= 2 * Height(n)
                /\ EvenlyPaired(n, i) => Len(p) = 2 * Height(n)

\* C10: append(x) on an empty tree leaves the same stored levels and the
\* same get_root as build([x]).
C10_AppendOnEmptyIsBuild ==
    (last.op = "append" /\ last.pre = 0) =>
        LET b == build_full_merkle_tree(<<>>, <<last.leaf>>).levels
        IN  /\ tree[last.ctx] = b
            /\ get_root(tree[last.ctx]) = get_root(b)

\* C11: create_merkle_tree on a null data pointer or a zero count returns
\* the null handle and leaves the caller's levels, root and paths as they were.
C11_InvalidCreateIsNoop ==
    [][(last'.op = "create" /\ last'.data = <<>>) =>
          /\ last'.handle = "null"
          /\ tree' = tree
          /\ get_root(tree'[last'.ctx]) = get_root(tree[last'.ctx])
          /\ \A i \in 0..MaxLeaves :
                get_merkle_path_impl(tree'[last'.ctx], i)
                    = get_merkle_path_impl(tree[last'.ctx], i)]_vars

\* an invalid create on a thread whose tree holds several levels
C11_Witness ==
    /\ last.op = "create" /\ last.data = <<>> /\ last.handle = "null"
    /\ last.pre > 1 /\ Len(tree[last.ctx]) = last.pre

\* C12: build_full_merkle_tree on an empty batch returns normally and leaves
\* the thread's tree without levels.
C12_EmptyBuildReturnsEmptyTree ==
    (last.op = "build" /\ last.data = <<>>) =>
        (~last.panic /\ tree[last.ctx] = <<>>)

\* C13: after create_merkle_tree on a non-empty batch L the stored levels and
\* the returned root are those of building L on a fresh (empty) tree, whatever
\* the tree held before; building the same L again changes nothing.
C13_BuildIsFunctionOfInput ==
    [][(last'.op = "create" /\ last'.data # <<>>) =>
          LET c == last'.ctx
              fresh == build_full_merkle_tree(<<>>, last'.data)
          IN  /\ tree'[c] = fresh.levels
              /\ last'.root = fresh.root
              /\ (last.op = "create" /\ last.ctx = c /\ last.data = last'.data)
                   => (tree'[c] = tree[c] /\ last'.root = last.root)]_vars

\* a build of three or more leaves over a tree that already held levels
C13_Witness ==
    /\ last.op = "create" /\ Len(last.data) >= 3 /\ last.pre > 1
    /\ Len(tree[last.ctx]) > 1

\* the reference designates a node of the levels as they are now
ValidRef(levels, r) ==
    /\ r.level \in 0..(Len(levels) - 1)
    /\ r.idx \in 0..(Len(levels[r.level + 1]) - 1)

Deref(levels, r) == levels[r.level + 1][r.idx + 1]

\* n is a parent made by the pairing rule: either it carries a trailing
\* singleton (hash unchanged, left the singleton, right null) or it hashes
\* two adjacent children, both referenced
ParentOK(levels, n) ==
    /\ ValidRef(levels, n.left)
    /\ IF n.right = NULL
       THEN /\ n.hash = Deref(levels, n.left).hash
            /\ n.left.idx = Len(levels[n.left.level + 1]) - 1
            /\ n.left.idx % 2 = 0
       ELSE /\ n.right = Ref(n.left.level, n.left.idx + 1)
            /\ ValidRef(levels, n.right)
            /\ n.hash = poseidon_hash(<<Deref(levels, n.left).hash,
                                        Deref(levels, n.right).hash>>)

\* C14: every parent node, stored or returned as the root, follows the
\* pairing rule: a carried singleton keeps its hash and has a null right
\* reference, every other parent is H(left, right) with both references.
C14_OddCarryRule ==
    /\ \A c \in Contexts :
          \A k \in 1..Len(tree[c]) :
              \A j \in 1..Len(tree[c][k]) :
                  tree[c][k][j].left # NULL => ParentOK(tree[c], tree[c][k][j])
    /\ (last.op = "create" /\ last.handle = "box" /\ last.root.left # NULL)
          => ParentOK(tree[last.ctx], last.root)

\* the non-null references a node holds
RefsOf(n) == {n.left, n.right} \ {NULL}

\* C15: every non-null reference held by a node stored at level i+1, and by
\* the root node create_merkle_tree hands out, designates a node that exists
\* in level i of the same tree; leaf nodes (level 0) hold no references.
C15_CrossLevelRefs ==
    /\ \A c \in Contexts :
          \A k \in 1..Len(tree[c]) :
              \A j \in 1..Len(tree[c][k]) :
                  \A r \in RefsOf(tree[c][k][j]) :
                      /\ k > 1
                      /\ r.level = k - 2
                      /\ ValidRef(tree[c], r)
    /\ (last.op = "create" /\ last.handle = "box")
          => \A r \in RefsOf(last.root) :
                /\ r.level = Len(tree[last.ctx]) - 1
                /\ ValidRef(tree[last.ctx], r)

\* the levels path extraction may visit: all but the last stored one
VisitLevels(levels) == 0..(Len(levels) - 2)

\* the first visited level whose length is <= the index current there, or
\* the number of visited levels when there is none
StopLevel(levels, i) ==
    LET short == {k \in VisitLevels(levels) :
                     Len(levels[k + 1]) <= i \div Pow2(k)}
    IN  IF short = {} THEN Len(levels) - 1
        ELSE CHOOSE k \in short : \A m \in short : k <= m

\* what is accumulated over levels 0 .. k-1
RECURSIVE Accumulated(_, _, _)
Accumulated(levels, i, k) ==
    IF k = 0 THEN <<>>
    ELSE Accumulated(levels, i, k - 1)
             \o PathStep(levels[k], i \div Pow2(k - 1))

\* C16: path(i) never fails and never mutates: for every index, also beyond
\* the leaf count and on the empty tree, it returns the partial path
\* accumulated before the first level whose length is <= the current index,
\* and the stored levels and get_root are unchanged.
C16_PathTotalAndPure ==
    [][last'.op = "path" =>
          LET c == last'.ctx
          IN  /\ tree' = tree
              /\ get_root(tree'[c]) = get_root(tree[c])
              /\ last'.path =
                    IF tree[c] = <<>> THEN <<>>
                    ELSE Accumulated(tree[c], last'.index,
                                     StopLevel(tree[c], last'.index))]_vars

\* a path asked for an index beyond the leaf count of a tree of several levels
C16_Witness ==
    /\ last.op = "path"
    /\ Len(tree[last.ctx]) > 1
    /\ last.index >= LeafCount(tree[last.ctx])
    /\ last.path = <<>>

\* current_index XOR 1, clamped to the last index of the level
SiblingIndex(nodes, cur) ==
    Min(IF cur % 2 = 0 THEN cur + 1 ELSE cur - 1, Len(nodes) - 1)

\* what is emitted for one level. twice tells what a collapsed pair
\* (current = sibling, the trailing carried node) gives: its hash two times,
\* or one time
Emitted(nodes, cur, twice) ==
    LET sib == SiblingIndex(nodes, cur)
    IN  IF cur < sib THEN <<nodes[cur + 1].hash, nodes[sib + 1].hash>>
        ELSE IF cur > sib \/ twice
             THEN <<nodes[sib + 1].hash, nodes[cur + 1].hash>>
             ELSE <<nodes[cur + 1].hash>>

\* the emissions of levels 0 .. k-1, the index halved from level to level
RECURSIVE EmittedUpTo(_, _, _, _)
EmittedUpTo(levels, i, k, twice) ==
    IF k = 0 THEN <<>>
    ELSE EmittedUpTo(levels, i, k - 1, twice)
             \o Emitted(levels[k], i \div Pow2(k - 1), twice)

EmittedPath(levels, i, twice) ==
    IF levels = <<>> THEN <<>>
    ELSE EmittedUpTo(levels, i, StopLevel(levels, i), twice)

C18_PathCopyOut ==
    [][(last'.op = "get_merkle_path" /\ last'.args = "none") =>
          LET p == last'.path
              n == Min(Len(p), last'.cap)
          IN  /\ p = get_merkle_path_impl(tree[last'.ctx], last'.index)
              /\ \A i \in 1..Len(last'.buf) :
                    last'.buf[i] = IF i <= n THEN p[i] ELSE Uninit
              /\ last'.len = Len(p)
              /\ last'.status = 0
              /\ tree' = tree]_vars

\* a call whose buffer is too small for the path but holds something
C18_Witness ==
    /\ last.op = "get_merkle_path" /\ last.args = "none"
    /\ last.cap > 0
    /\ Len(last.path) > last.cap
    /\ last.len = Len(last.path)
    /\ last.buf[last.cap] = last.path[last.cap]

\* C19: the root node create_merkle_tree hands out for a non-empty leaf
\* sequence has the hash build_merkle_tree gives for that sequence, whatever
\* the context's tree was before.
C19_RootNodeIsReduction ==
    (last.op = "create" /\ last.handle = "box") =>
        last.root.hash = build_merkle_tree(last.data)

\* a create of five leaves (a carry on two levels) over an earlier tree
C19_Witness ==
    /\ last.op = "create" /\ last.handle = "box"
    /\ Len(last.data) = 5
    /\ last.pre > 1
    /\ last.root.hash # last.data[1]

\* C20: an append on a tree with at least one level leaves the number of
\* stored levels as it was; the number grows only by an append on the empty
\* tree (0 -> 1) or by a build.
C20_AppendKeepsLevelCount ==
    [][\A c \in Contexts :
          /\ (last'.op = "append" /\ last'.ctx = c) =>
                Len(tree'[c]) = IF tree[c] = <<>> THEN 1 ELSE Len(tree[c])
          /\ Len(tree'[c]) > Len(tree[c]) =>
                \/ last'.op = "create"
                \/ last'.op = "append" /\ tree[c] = <<>>]_vars

\* an append made on a tree of several levels
C20_Witness ==
    /\ last.op = "append"
    /\ last.pre > 1
    /\ Len(tree[last.ctx]) = last.pre
    /\ Len(leaves[last.ctx]) > 2

====
